---- MODULE Spec2Model ----
(***************************************************************************)
(* Model of crawler.py: the tile enumeration of Crawler.crawl_box, the     *)
(* asyncio worker pool draining the queue of download_tile coroutines, and *)
(* the file system and progress counter they act on.                       *)
(*                                                                         *)
(* asyncio runs one coroutine at a time and switches only at an await that *)
(* really suspends, so every action below is one run of code between two   *)
(* suspension points.  Strings are modelled as sequences of tokens: a      *)
(* placeholder ("{x}"), a separator ("/", "?") or a literal piece.         *)
(***************************************************************************)
EXTENDS Integers, Sequences, FiniteSets, TLC

\* ---- bounds of the model ----
MaxCoord   == 2     \* tile indices 0..MaxCoord (and below 2^level)
MaxTiles   == 3     \* largest rectangle a worker pool is run on
MaxWorkers == 2     \* largest --parallel-tasks
MaxLevel   == 2     \* largest --level given to crawl()

\* ---- inputs ----
folder == "out"

\* --level: the root level and one with a grid of tiles
Levels == {0, 2}

UrlPng   == <<"https://example", "/", "{z}", "/", "{x}", "/", "{y}", ".png">>
UrlNoExt == <<"https://example", "/", "{z}", "/", "{x}", "/", "{y}">>
UrlQuery == <<"https://example", "/", "{z}", "/", "{x}", "/", "{y}", ".jpg", "?", "k">>
UrlTemplates == {UrlPng, UrlNoExt, UrlQuery}

\* tokens that begin with a dot and carry at least one more character
DotTokens == {".png", ".jpg"}

\* HTTP statuses the server may answer with
Statuses == {200, 404, 500}

\* content of a tile file that exists before the crawl
OldBody == <<"old">>

\* ---- helpers ----
Pow2(n) == IF n = 0 THEN 1 ELSE IF n = 1 THEN 2 ELSE IF n = 2 THEN 4 ELSE 8

MinOf(a, b) == IF a < b THEN a ELSE b

\* str(n) as format() renders an integer field
Digits == <<"0", "1", "2", "3", "4", "5", "6", "7", "8", "9">>
Str(n) == Digits[n + 1]

FirstIdx(s, tok) ==
  IF \E i \in 1..Len(s) : s[i] = tok
  THEN CHOOSE i \in 1..Len(s) : s[i] = tok /\ \A j \in 1..(i - 1) : s[j] # tok
  ELSE Len(s) + 1

LastIdx(s, tok) ==
  IF \E i \in 1..Len(s) : s[i] = tok
  THEN CHOOSE i \in 1..Len(s) : s[i] = tok /\ \A j \in (i + 1)..Len(s) : s[j] # tok
  ELSE 0

\* Tile(x, y, z)
Tile(tx, ty, tz) == [x |-> tx, y |-> ty, z |-> tz]

\* a template with x and y the wrong way round
path_template_swapped == <<"{z}", "/", "{y}", "/", "{x}">>

\* Crawler.path_template
path_template == <<"{z}", "/", "{x}", "/", "{y}">>

\* path.format(x=tile.x, y=tile.x, z=tile.z): the x index given for y
replace_path_tile_xx(path, tile) ==
  [i \in 1..Len(path) |->
     IF path[i] = "{x}" THEN Str(tile.x)
     ELSE IF path[i] = "{y}" THEN Str(tile.x)
     ELSE IF path[i] = "{z}" THEN Str(tile.z)
     ELSE path[i]]

\* Crawler.replace_path_tile: path.format(x=tile.x, y=tile.y, z=tile.z)
replace_path_tile(path, tile) ==
  [i \in 1..Len(path) |->
     IF path[i] = "{x}" THEN Str(tile.x)
     ELSE IF path[i] = "{y}" THEN Str(tile.y)
     ELSE IF path[i] = "{z}" THEN Str(tile.z)
     ELSE path[i]]

\* urlparse(url).path: from the first "/" after the host up to the query
urlparse_path(u) == SubSeq(u, FirstIdx(u, "/"), FirstIdx(u, "?") - 1)

\* Path(p).suffix: the last dot piece of the final component, unless the
\* component starts with it
path_suffix(p) ==
  IF Len(p) > LastIdx(p, "/") + 1 /\ p[Len(p)] \in DotTokens
  THEN p[Len(p)]
  ELSE ""

\* a target that leaves the y index out of the file name
TargetNoY(u, tile) ==
  <<folder, "/">> \o replace_path_tile(<<"{z}", "/", "{x}", "/", "t">>, tile)

\* f"{folder}/{self.replace_path_tile(self.path_template, tile)}{path.suffix}"
Target(u, tile) ==
  <<folder, "/">> \o replace_path_tile(path_template, tile)
    \o (IF path_suffix(urlparse_path(u)) = "" THEN <<>>
        ELSE <<path_suffix(urlparse_path(u))>>)

\* the coroutine object download_tile(session, source, target)
Coro(u, tile) ==
  [tile   |-> tile,
   source |-> replace_path_tile(u, tile),
   target |-> Target(u, tile)]

\* os.path.dirname
dirname(p) == SubSeq(p, 1, LastIdx(p, "/") - 1)

\* os.makedirs(dirname, exist_ok=True): the directory and its ancestors
makedirs(ds, d) ==
  ds \cup {SubSeq(d, 1, k) : k \in {j \in 1..Len(d) : j = Len(d) \/ d[j + 1] = "/"}}

\* the body the server sends for a URL: here the x and y pieces of the URL
ServerBody(source) == <<source[5], source[7]>>

\* aiofiles.open(target, mode='wb'): creates the file or truncates it
OpenWb(files, target) ==
  [p \in DOMAIN files \cup {target} |-> IF p = target THEN <<>> ELSE files[p]]

\* f.write(data) as far as it got: the first k pieces of data
WriteBytes(files, target, data, k) ==
  [p \in DOMAIN files \cup {target} |->
     IF p = target THEN SubSeq(data, 1, k) ELSE files[p]]

\* range(a, b): the stop taken as the last value
RangeStopExclusive(b) == b

\* range(a, b + 1)
RangeStop(b) == b + 1

\* the coordinates a level has that the model covers
Coords(lv) == 0..MinOf(Pow2(lv) - 1, MaxCoord)

\* len(range(a, b + 1))
RangeLen(a, b) == IF RangeStop(b) > a THEN RangeStop(b) - a ELSE 0

\* Crawler.tile_size
tile_size == 256

\* int(): truncation toward zero of the quotient a / b, b > 0
TruncDiv(a, b) == IF a >= 0 THEN a \div b ELSE -((-a) \div b)

\* --top-latitude, --bottom-latitude and --top-longitude, --bottom-longitude,
\* in whole degrees
Lats == {85, 0, -85}
Lons == {-180, -90, 0, 90, 180}

\* 0.5 - log((1 + sin_latitude) / (1 - sin_latitude)) / (4 * pi) with
\* sin_latitude = sin(latitude * pi / 180), in millionths, for the latitudes
\* of the model
MercatorMicro(latitude) ==
  IF latitude = 85 THEN 1637
  ELSE IF latitude = 0 THEN 500000
  ELSE 998362

\* Crawler.find_tile: pixel_x and pixel_y divided by tile_size and truncated.
\* For whole degrees the products by tile_size and 2 ** level are exact in
\* floating point, so the integer quotient is the value int() returns.
find_tile(latitude, longitude, level) ==
  Tile(TruncDiv((longitude + 180) * tile_size * Pow2(level), 360 * tile_size),
       TruncDiv(MercatorMicro(latitude) * tile_size * Pow2(level),
                1000000 * tile_size),
       level)

VARIABLES
  args,           \* the arguments of crawl(), <<>> when crawl_box is called directly
  bounding_box,   \* (top_left_tile, bottom_right_tile)
  url,            \* the URL template
  num_workers,    \* --parallel-tasks
  files0,         \* the tile files that existed before the crawl
  pc,             \* crawl: "crawl"; crawl_box: "enum", "join" or "done"
  x, y,           \* the loop variables of the enumeration
  tasks,          \* every coroutine object created, in order of creation
  queue,          \* asyncio.Queue: the ids of the queued coroutines
  unfinished,     \* queue._unfinished_tasks
  status,         \* per coroutine: pending, in-flight, succeeded, failed
  outcome,        \* per coroutine: how it ended, <<kind, http status, bytes written>>
  dequeues,       \* per coroutine: how often queue.get() returned it
  workers,        \* per worker task: its position, its coroutine, response and data
  files,          \* file system: path -> content
  dirs,           \* file system: directories
  progress,       \* the tqdm bar: total and n
  log             \* logging: the records emitted at level INFO and at level ERROR

vars == <<args, bounding_box, url, num_workers, files0, pc, x, y, tasks, queue,
          unfinished, status, outcome, dequeues, workers, files, dirs, progress,
          log>>

inputs == <<args, bounding_box, url, num_workers, files0>>

NoOutcome == <<"none", 0, 0>>

Idle == [pc |-> "get", task |-> 0, code |-> 0, data |-> <<>>]

\* the rectangles crawl() can hand to crawl_box: two tiles of one level, in
\* either order
AllBoxes ==
  {<<Tile(c[1], c[2], c[5]), Tile(c[3], c[4], c[5])>> :
     c \in {d \in (0..MaxCoord) \X (0..MaxCoord) \X (0..MaxCoord) \X (0..MaxCoord)
                  \X Levels :
              {d[1], d[2], d[3], d[4]} \subseteq Coords(d[5])}}

\* len(range(x1, x2 + 1)) * len(range(y1, y2 + 1))
BoxSize(b) == RangeLen(b[1].x, b[2].x) * RangeLen(b[1].y, b[2].y)

\* the rectangles the worker pool is run on: one corner is tile (0, 0)
Boxes ==
  {b \in AllBoxes :
     /\ BoxSize(b) <= MaxTiles
     /\ \E i \in 1..2 : b[i].x = 0 /\ b[i].y = 0}

\* the tile files on disk before the crawl: an old copy of every tile of
\* row 0, none of the other rows
OldFiles(u, lv) ==
  [p \in {Target(u, Tile(cx, 0, lv)) : cx \in Coords(lv)} |-> OldBody]

Init ==
  /\ args = <<>>
  /\ bounding_box \in Boxes
  /\ url \in UrlTemplates
  /\ num_workers \in (-1)..MaxWorkers
  /\ files0 = OldFiles(url, bounding_box[1].z)
  /\ pc = "enum"
  /\ x = bounding_box[1].x
  /\ y = bounding_box[1].y
  /\ tasks = <<>>
  /\ queue = <<>>
  /\ unfinished = 0
  /\ status = <<>>
  /\ outcome = <<>>
  /\ dequeues = <<>>
  /\ workers = <<>>
  /\ files = files0
  /\ dirs = {}
  /\ progress = [total |-> 0, n |-> 0]
  /\ log = [info |-> 0, error |-> 0]

\* ---- crawl_box ----

\* an enumeration that stops once the queue holds a task for every worker
EnumDoneWhenQueueFull ==
  \/ Len(queue) >= num_workers
  \/ x >= RangeStop(bounding_box[2].x)
  \/ bounding_box[1].y >= RangeStop(bounding_box[2].y)

\* the nested for loops have run out
EnumDone ==
  \/ x >= RangeStop(bounding_box[2].x)
  \/ bounding_box[1].y >= RangeStop(bounding_box[2].y)

\* one pass of the loop body: build the coroutine and queue.put it
Put ==
  /\ pc = "enum"
  /\ ~EnumDone
  /\ tasks' = Append(tasks, Coro(url, Tile(x, y, bounding_box[1].z)))
  /\ queue' = Append(queue, Len(tasks) + 1)
  /\ unfinished' = unfinished + 1
  /\ status' = Append(status, "pending")
  /\ outcome' = Append(outcome, NoOutcome)
  /\ dequeues' = Append(dequeues, 0)
  /\ IF y + 1 < RangeStop(bounding_box[2].y)
     THEN /\ y' = y + 1
          /\ x' = x
     ELSE /\ y' = bounding_box[1].y
          /\ x' = x + 1
  /\ UNCHANGED <<inputs, pc, workers, files, dirs, progress, log>>

\* range(num_workers + 1): one worker too many
WorkerIdsOneMore == 1..(num_workers + 1)

\* range(num_workers)
WorkerIds == 1..num_workers

\* progress = tqdm_asyncio(total=queue.qsize()); the workers are created;
\* crawl_box reaches queue.join()
StartWorkers ==
  /\ pc = "enum"
  /\ EnumDone
  /\ progress' = [total |-> Len(queue), n |-> 0]
  /\ workers' = [w \in WorkerIds |-> Idle]
  /\ pc' = "join"
  /\ UNCHANGED <<inputs, x, y, tasks, queue, unfinished, status, outcome,
                 dequeues, files, dirs, log>>

\* waiting for queue.empty() instead of queue.join()
JoinReadyWhenEmpty == queue = <<>>

\* queue.join() lets crawl_box go on
JoinReady == unfinished = 0

\* after join: every worker task is cancelled, the bar closed, crawl_box returns
JoinReturn ==
  /\ pc = "join"
  /\ JoinReady
  /\ workers' = [w \in DOMAIN workers |-> [workers[w] EXCEPT !.pc = "cancelled"]]
  /\ pc' = "done"
  /\ UNCHANGED <<inputs, x, y, tasks, queue, unfinished, status, outcome,
                 dequeues, files, dirs, progress, log>>

\* ---- worker ----

\* a worker without the except clause: the exception ends it
AfterTaskUncaught(out) == IF out[1] = "ok" THEN "get" ELSE "stopped"

\* where the worker goes once its coroutine has ended with outcome out
AfterTask(out) == "get"

\* progress.update(1) at the end of the try block instead of in finally
ProgressUpdateOnSuccess(p, out) ==
  IF p.total > 0 /\ out[1] = "ok" THEN [p EXCEPT !.n = p.n + 1] ELSE p

\* progress.update(1) in the finally block; a tqdm bar is true when total > 0
ProgressUpdate(p, out) ==
  IF p.total > 0 THEN [p EXCEPT !.n = p.n + 1] ELSE p

\* queue.task_done() in the except clause instead of in finally
TaskDoneOnFailure(u, out) == IF out[1] = "ok" THEN u ELSE u - 1

\* queue.task_done() in the finally block
TaskDone(u, out) == u - 1

\* the "Downloaded" record written as soon as the answer is a 200
LogRecordOn200(l, out) ==
  IF out[2] = 200 THEN [l EXCEPT !.info = l.info + 1]
  ELSE [l EXCEPT !.error = l.error + 1]

\* logging.info("Downloaded ...") at the end of download_tile, or
\* logging.error("Error in task ...") in the except clause
LogRecord(l, out) ==
  IF out[1] = "ok" THEN [l EXCEPT !.info = l.info + 1]
  ELSE [l EXCEPT !.error = l.error + 1]

\* the coroutine i of worker w ends with outcome out: except and finally
\* run, and the worker is back at queue.get()
Resolve(w, i, out) ==
  /\ status' = [status EXCEPT ![i] = IF out[1] = "ok" THEN "succeeded" ELSE "failed"]
  /\ outcome' = [outcome EXCEPT ![i] = out]
  /\ unfinished' = TaskDone(unfinished, out)
  /\ log' = LogRecord(log, out)
  /\ progress' = ProgressUpdate(progress, out)
  /\ workers' = [workers EXCEPT ![w] = [Idle EXCEPT !.pc = AfterTask(out)]]

\* a get that leaves the item in the queue
DequeuePeek(q) == q

\* what queue.get() leaves in the queue
Dequeue(q) == Tail(q)

\* every status below 500 taken as a success
IsSuccessBelow500(code) == code < 500

\* only status 200 is a success
IsSuccess(code) == code = 200

\* queue.get() returns a coroutine and the worker awaits it: download_tile
\* runs os.makedirs and sends the request
WorkerGet(w) ==
  /\ pc = "join"
  /\ workers[w].pc = "get"
  /\ queue # <<>>
  /\ LET i == Head(queue) IN
       /\ queue' = Dequeue(queue)
       /\ dequeues' = [dequeues EXCEPT ![i] = dequeues[i] + 1]
       /\ \/ /\ dirs' = makedirs(dirs, dirname(tasks[i].target))
             /\ status' = [status EXCEPT ![i] = "in-flight"]
             /\ workers' = [workers EXCEPT ![w] = [Idle EXCEPT !.pc = "request", !.task = i]]
             /\ UNCHANGED <<outcome, unfinished, progress, log>>
          \/ /\ Resolve(w, i, <<"mkdir_err", 0, 0>>)
             /\ UNCHANGED dirs
  /\ UNCHANGED <<inputs, pc, x, y, tasks, files>>

\* session.get(source) answers, or fails with a network error
Response(w) ==
  /\ workers[w].pc = "request"
  /\ LET i == workers[w].task IN
       \/ \E code \in Statuses :
            \/ /\ IsSuccess(code)
               /\ workers' = [workers EXCEPT ![w].pc = "open", ![w].code = code]
               /\ UNCHANGED <<status, outcome, unfinished, progress, log>>
            \/ /\ ~IsSuccess(code)
               /\ Resolve(w, i, <<"http", code, 0>>)
       \/ Resolve(w, i, <<"conn_err", 0, 0>>)
  /\ UNCHANGED <<inputs, pc, x, y, tasks, queue, dequeues, files, dirs>>

\* aiofiles.open(target, mode='wb')
OpenFile(w) ==
  /\ workers[w].pc = "open"
  /\ LET i == workers[w].task IN
       \/ /\ files' = OpenWb(files, tasks[i].target)
          /\ workers' = [workers EXCEPT ![w].pc = "read"]
          /\ UNCHANGED <<status, outcome, unfinished, progress, log>>
       \/ /\ Resolve(w, i, <<"open_err", workers[w].code, 0>>)
          /\ UNCHANGED files
  /\ UNCHANGED <<inputs, pc, x, y, tasks, queue, dequeues, dirs>>

\* await resp.read(), evaluated once the file is open
ReadBody(w) ==
  /\ workers[w].pc = "read"
  /\ LET i == workers[w].task IN
       \/ /\ workers' = [workers EXCEPT ![w].pc = "write",
                                        ![w].data = ServerBody(tasks[i].source)]
          /\ UNCHANGED <<status, outcome, unfinished, progress, log>>
       \/ Resolve(w, i, <<"read_err", workers[w].code, 0>>)
  /\ UNCHANGED <<inputs, pc, x, y, tasks, queue, dequeues, files, dirs>>

\* await f.write(data) and the close of the file: all of data, or a write
\* error after k pieces
WriteBody(w) ==
  /\ workers[w].pc = "write"
  /\ LET i == workers[w].task
         data == workers[w].data IN
       \/ /\ files' = WriteBytes(files, tasks[i].target, data, Len(data))
          /\ Resolve(w, i, <<"ok", workers[w].code, Len(data)>>)
       \/ \E k \in 0..(Len(data) - 1) :
            /\ files' = WriteBytes(files, tasks[i].target, data, k)
            /\ Resolve(w, i, <<"write_err", workers[w].code, k>>)
  /\ UNCHANGED <<inputs, pc, x, y, tasks, queue, dequeues, dirs>>

Next ==
  \/ Put
  \/ StartWorkers
  \/ JoinReturn
  \/ \E w \in DOMAIN workers : WorkerGet(w)
  \/ \E w \in DOMAIN workers : Response(w)
  \/ \E w \in DOMAIN workers : OpenFile(w)
  \/ \E w \in DOMAIN workers : ReadBody(w)
  \/ \E w \in DOMAIN workers : WriteBody(w)

Spec == Init /\ [][Next]_vars

\* ---- the crawl under a fair event loop ----

\* a step of worker task w
WorkerStep(w) ==
  /\ w \in DOMAIN workers
  /\ \/ WorkerGet(w)
     \/ Response(w)
     \/ OpenFile(w)
     \/ ReadBody(w)
     \/ WriteBody(w)

\* the event loop runs every coroutine that is ready, and every request,
\* open, read and write that was started comes to an end
Fairness ==
  /\ WF_vars(Put)
  /\ WF_vars(StartWorkers)
  /\ WF_vars(JoinReturn)
  /\ \A w \in 1..MaxWorkers : WF_vars(WorkerStep(w))

\* the crawls of Spec over one column of tiles, fetched from the template
\* with a plain extension
InitFair ==
  /\ Init
  /\ url = UrlPng
  /\ bounding_box[1].x = 0
  /\ bounding_box[2].x = 0

FairSpec == InitFair /\ [][Next]_vars /\ Fairness

\* ---- the enumeration alone, over every rectangle of the grid ----

InitEnum ==
  /\ args = <<>>
  /\ bounding_box \in AllBoxes
  /\ url \in UrlTemplates
  /\ num_workers \in {-1, 0}
  /\ files0 = OldFiles(url, bounding_box[1].z)
  /\ pc = "enum"
  /\ x = bounding_box[1].x
  /\ y = bounding_box[1].y
  /\ tasks = <<>>
  /\ queue = <<>>
  /\ unfinished = 0
  /\ status = <<>>
  /\ outcome = <<>>
  /\ dequeues = <<>>
  /\ workers = <<>>
  /\ files = files0
  /\ dirs = {}
  /\ progress = [total |-> 0, n |-> 0]
  /\ log = [info |-> 0, error |-> 0]

NextEnum ==
  \/ Put
  \/ StartWorkers
  \/ JoinReturn

SpecEnum == InitEnum /\ [][NextEnum]_vars

\* ---- crawl: the corner tiles from the coordinates, then crawl_box ----

\* the arguments crawl() reads
CrawlArgs ==
  [top_latitude : Lats, top_longitude : Lons,
   bottom_latitude : Lats, bottom_longitude : Lons, level : 0..MaxLevel]

\* (top_left_tile, bottom_right_tile)
CornerTiles(a) ==
  <<find_tile(a.top_latitude, a.top_longitude, a.level),
    find_tile(a.bottom_latitude, a.bottom_longitude, a.level)>>

\* a worker pool is run on rectangles of at most MaxTiles tiles
InitCrawl ==
  /\ args \in CrawlArgs
  /\ url = UrlPng
  /\ num_workers \in (-1)..MaxWorkers
  /\ num_workers >= 1 => BoxSize(CornerTiles(args)) <= MaxTiles
  /\ files0 = OldFiles(url, args.level)
  /\ bounding_box = <<>>
  /\ pc = "crawl"
  /\ x = 0
  /\ y = 0
  /\ tasks = <<>>
  /\ queue = <<>>
  /\ unfinished = 0
  /\ status = <<>>
  /\ outcome = <<>>
  /\ dequeues = <<>>
  /\ workers = <<>>
  /\ files = files0
  /\ dirs = {}
  /\ progress = [total |-> 0, n |-> 0]
  /\ log = [info |-> 0, error |-> 0]

\* crawl() up to the call of crawl_box and the start of its first loop
Crawl ==
  /\ pc = "crawl"
  /\ bounding_box' = CornerTiles(args)
  /\ x' = bounding_box'[1].x
  /\ y' = bounding_box'[1].y
  /\ pc' = "enum"
  /\ UNCHANGED <<args, url, num_workers, files0, tasks, queue, unfinished, status,
                 outcome, dequeues, workers, files, dirs, progress, log>>

NextCrawl ==
  \/ Crawl
  \/ Next

SpecCrawl == InitCrawl /\ [][NextCrawl]_vars

\* ---- definitions the properties share ----

TaskIds == 1..Len(tasks)

Terminal == {"succeeded", "failed"}

InFlight == {i \in TaskIds : status[i] = "in-flight"}

Resolved == {i \in TaskIds : status[i] \in Terminal}

\* the content of the file at path p, <<"absent">> when there is none
FileAt(fs, p) == IF p \in DOMAIN fs THEN <<"file", fs[p]>> ELSE <<"absent">>

Rank(st) == IF st = "pending" THEN 0 ELSE IF st = "in-flight" THEN 1 ELSE 2

Abs(n) == IF n < 0 THEN -n ELSE n

\* ---- C1 ----
\* C1: when crawl_box has returned, every enumerated task is succeeded or
\* failed, the queue holds no task and no worker holds one.
C1_AllTerminalAtReturn ==
  pc = "done" =>
    /\ \A i \in TaskIds : status[i] \in Terminal
    /\ queue = <<>>
    /\ \A w \in DOMAIN workers : workers[w].task = 0

\* crawl_box has returned from a crawl of three tiles run by two workers,
\* with a failure and a success among them
C1_Witness ==
  /\ pc = "done"
  /\ Len(tasks) = 3
  /\ num_workers = 2
  /\ \E i, j \in TaskIds : status[i] = "failed" /\ status[j] = "succeeded"

\* ---- C2 ----
\* C2: the number of tasks in flight never exceeds the number of workers, which
\* is num_workers (none when num_workers is not positive).
C2_InFlightBounded ==
  Cardinality(InFlight) <= (IF num_workers > 0 THEN num_workers ELSE 0)

\* every worker is busy while a task still waits in the queue
C2_Witness ==
  /\ num_workers = 2
  /\ Cardinality(InFlight) = 2
  /\ queue # <<>>

\* ---- C3 ----
\* the workers that hold coroutine i
Holders(i) == {w \in DOMAIN workers : workers[w].task = i}

\* C3: the step in which a task fails leaves the worker that ran it at
\* queue.get() and every other worker as it was; no worker ever stops before
\* crawl_box cancels it, and at the return of crawl_box every task has been run.
C3_FailureIsolation ==
  /\ [][\A i \in TaskIds :
          (status[i] # "failed" /\ status'[i] = "failed") =>
             /\ \A w \in Holders(i) : workers'[w] = Idle
             /\ \A w \in DOMAIN workers \ Holders(i) : workers'[w] = workers[w]]_vars
  /\ [](\A w \in DOMAIN workers : workers[w].pc \in
          {"get", "request", "open", "read", "write", "cancelled"})
  /\ [](pc = "done" => \A i \in TaskIds : dequeues[i] > 0 /\ status[i] \in Terminal)

\* the only worker has had a task fail and is running another one, with a
\* third still queued
C3_Witness ==
  /\ num_workers = 1
  /\ \E i, j \in TaskIds : status[i] = "failed" /\ status[j] = "in-flight"
  /\ queue # <<>>

\* ---- C4 ----
\* C4: a failed download_tile leaves the file at its target path as it was
\* before the crawl: absent if it was absent, with its old content if it existed.
C4_NoPartialFileOnFailure ==
  \A i \in TaskIds :
    status[i] = "failed" =>
      FileAt(files, tasks[i].target) = FileAt(files0, tasks[i].target)

\* ---- C5 ----
\* C5: a task whose fetch was answered with a status other than 200 ends as
\* failed, and the file at its target path is as it was before the crawl; the
\* step in which it ends changes no file.
C5_Non200LeavesFiles ==
  /\ [](\A i \in TaskIds :
          (outcome[i] # NoOutcome /\ outcome[i][2] \notin {0, 200}) =>
             /\ status[i] = "failed"
             /\ FileAt(files, tasks[i].target) = FileAt(files0, tasks[i].target))
  /\ [][\A i \in TaskIds :
          (outcome[i] = NoOutcome /\ outcome'[i] # NoOutcome
             /\ outcome'[i][2] \notin {0, 200}) => files' = files]_vars

\* a 404 and a 500 have been answered, one for a tile with an old file and one
\* for a tile without
C5_Witness ==
  \E i, j \in TaskIds :
    /\ outcome[i][2] = 404
    /\ outcome[j][2] = 500
    /\ tasks[i].target \in DOMAIN files0
    /\ tasks[j].target \notin DOMAIN files0

\* ---- C6 ----
\* the extension each URL template of the model carries in its path
ExtOf(u) == IF u = UrlPng THEN <<".png">> ELSE IF u = UrlQuery THEN <<".jpg">> ELSE <<>>

\* {target-folder}/{z}/{x}/{y}{ext}
LayoutPath(t, u) == <<folder, "/", Str(t.z), "/", Str(t.x), "/", Str(t.y)>> \o ExtOf(u)

\* C6: once the task of tile (x, y, z) has succeeded, the file
\* {target-folder}/{z}/{x}/{y}{ext} exists and holds the body the server sent
\* for the tile's URL.
C6_SuccessWritesBody ==
  \A i \in TaskIds :
    status[i] = "succeeded" =>
      /\ LayoutPath(tasks[i].tile, url) \in DOMAIN files
      /\ files[LayoutPath(tasks[i].tile, url)]
           = ServerBody(replace_path_tile(url, tasks[i].tile))
      /\ outcome[i][2] = 200

\* two tiles of one crawl have succeeded, one of them over an
\* old file, and crawl_box has returned; a tile has x different from y
C6_Witness ==
  /\ pc = "done"
  /\ \E i, j \in TaskIds :
       /\ i # j
       /\ status[i] = "succeeded" /\ status[j] = "succeeded"
       /\ tasks[i].target \in DOMAIN files0
       /\ tasks[j].target \notin DOMAIN files0
  /\ \E i \in TaskIds : tasks[i].tile.x # tasks[i].tile.y

\* ---- C7 ----
\* the tiles enumerated, as a set
EnumeratedTiles == {tasks[i].tile : i \in TaskIds}

\* the tiles of the rectangle between two corners, whatever their order
Rectangle(b) ==
  {Tile(cx, cy, b[1].z) :
     cx \in (IF b[1].x < b[2].x THEN b[1].x ELSE b[2].x)..
            (IF b[1].x < b[2].x THEN b[2].x ELSE b[1].x),
     cy \in (IF b[1].y < b[2].y THEN b[1].y ELSE b[2].y)..
            (IF b[1].y < b[2].y THEN b[2].y ELSE b[1].y)}

\* (|x2-x1|+1) x (|y2-y1|+1)
RectangleCount(b) == (Abs(b[2].x - b[1].x) + 1) * (Abs(b[2].y - b[1].y) + 1)

\* the enumeration yields the whole rectangle, each tile once
YieldsRectangle ==
  /\ Len(tasks) = RectangleCount(bounding_box)
  /\ EnumeratedTiles = Rectangle(bounding_box)
  /\ \A i, j \in TaskIds : tasks[i].tile = tasks[j].tile => i = j

\* C7 as stated: for two corners in either order the enumeration yields the
\* (|x2-x1|+1) x (|y2-y1|+1) tiles from min to max, each once.
C7_EitherOrder == pc # "enum" => YieldsRectangle

\* C7 as amended: for corners with x1 <= x2 and y1 <= y2 the enumeration yields
\* the (x2-x1+1) x (y2-y1+1) tiles of the rectangle, each once and at level z;
\* for corners with x1 > x2 or y1 > y2 it yields no tile.
C7_OrderedCorners ==
  pc # "enum" =>
    IF bounding_box[1].x <= bounding_box[2].x /\ bounding_box[1].y <= bounding_box[2].y
    THEN YieldsRectangle
    ELSE tasks = <<>>

\* a rectangle of two columns and three rows has been enumerated
C7_Witness ==
  /\ pc # "enum"
  /\ bounding_box[2].x = bounding_box[1].x + 1
  /\ bounding_box[2].y = bounding_box[1].y + 2
  /\ Len(tasks) = 6

\* ---- C8 ----
\* what download_tile does to the files when it ends with outcome out
Effect(fs, task, out) ==
  IF out[1] = "read_err" THEN OpenWb(fs, task.target)
  ELSE IF out[1] \in {"write_err", "ok"}
       THEN WriteBytes(OpenWb(fs, task.target), task.target, ServerBody(task.source), out[3])
       ELSE fs

\* the files a single worker leaves that runs the first n tasks one after the
\* other, in queue order, with the outcomes recorded
RECURSIVE SeqFiles(_)
SeqFiles(n) == IF n = 0 THEN files0 ELSE Effect(SeqFiles(n - 1), tasks[n], outcome[n])

\* C8: whatever the number of workers and their interleaving, crawl_box returns
\* with the files, the succeeded tiles and the failed tiles that a run of a
\* single worker leaves for the same per-tile outcomes.
C8_SameAsSequential ==
  pc = "done" =>
    /\ files = SeqFiles(Len(tasks))
    /\ \A i \in TaskIds : status[i] = (IF outcome[i][1] = "ok" THEN "succeeded" ELSE "failed")

\* two workers have finished three tiles, one with a file left empty, one
\* written in full and one cut short
C8_Witness ==
  /\ pc = "done"
  /\ num_workers = 2
  /\ Len(tasks) = 3
  /\ outcome[1][1] = "read_err"
  /\ outcome[2][1] = "ok"
  /\ outcome[3][1] = "write_err"

\* ---- C9 ----
\* C9: a task only moves forward through pending, in-flight and succeeded or
\* failed, and a succeeded or failed task stays what it is; queue.get() returns
\* it at most once, at most one worker holds it, and that only while it is in
\* flight; it is in the queue exactly while it is pending, and once.
C9_ForwardOnly ==
  /\ [][\A i \in TaskIds :
          /\ Rank(status'[i]) >= Rank(status[i])
          /\ status[i] \in Terminal =>
               status'[i] = status[i] /\ outcome'[i] = outcome[i]
                 /\ dequeues'[i] = dequeues[i]]_vars
  /\ [](\A i \in TaskIds :
          /\ dequeues[i] <= 1
          /\ dequeues[i] = (IF status[i] = "pending" THEN 0 ELSE 1)
          /\ Cardinality(Holders(i)) = (IF status[i] = "in-flight" THEN 1 ELSE 0)
          /\ Cardinality({k \in 1..Len(queue) : queue[k] = i})
               = (IF status[i] = "pending" THEN 1 ELSE 0))

\* one task has failed, one is in flight and one is still pending
C9_Witness ==
  \E i, j, k \in TaskIds :
    /\ status[i] = "failed"
    /\ status[j] = "in-flight"
    /\ status[k] = "pending"

\* ---- C10 ----
\* C10: progress.n always equals the number of succeeded and failed tasks; a
\* step that ends a task raises it by exactly one and no other step changes
\* it; when crawl_box has returned it equals the number of enumerated tiles,
\* which is the bar's total.
C10_ProgressCounts ==
  /\ [](progress.n = Cardinality(Resolved))
  /\ [](pc = "done" => progress.n = Len(tasks) /\ progress.total = Len(tasks))
  /\ [][/\ progress'.n >= progress.n
        /\ progress'.n - progress.n
             = Cardinality({i \in TaskIds : status[i] \notin Terminal
                                             /\ status'[i] \in Terminal})
        /\ progress'.n - progress.n <= 1]_vars

\* the bar stands at 2 of 3 after a failure and a success, with two workers
C10_Witness ==
  /\ progress.n = 2
  /\ progress.total = 3
  /\ num_workers = 2
  /\ \E i, j \in TaskIds : status[i] = "failed" /\ status[j] = "succeeded"

\* ---- C11 ----
\* the positions of a worker task that no exception has ended
WorkerPositions == {"get", "request", "open", "read", "write", "cancelled"}

Failed == {i \in TaskIds : status[i] = "failed"}

\* C11: whatever the tiles' outcomes, no exception ends a worker and none
\* reaches crawl_box: every failure is logged by the worker, and once a tile
\* has failed, as long as crawl_box has not returned, the crawl is not stuck:
\* queue.join() is free to return, or a worker is running a task, or a task
\* waits in the queue and a worker is free to take it.
C11_ErrorsContained ==
  /\ \A w \in DOMAIN workers : workers[w].pc \in WorkerPositions
  /\ pc \in {"enum", "join", "done"}
  /\ log.error = Cardinality(Failed)
  /\ (Failed # {} /\ pc # "done") =>
        \/ unfinished = 0
        \/ \E w \in DOMAIN workers : workers[w].pc \in {"request", "open", "read", "write"}
        \/ queue # <<>> /\ \E w \in DOMAIN workers : workers[w].pc = "get"

\* crawl_box has returned from a crawl whose three tiles failed: one at
\* os.makedirs, one with a status or network error, one at the write
C11_Witness ==
  /\ pc = "done"
  /\ Len(tasks) = 3
  /\ \E i, j, k \in TaskIds :
       /\ outcome[i][1] = "mkdir_err"
       /\ outcome[j][1] \in {"http", "conn_err"}
       /\ outcome[k][1] = "write_err"

\* ---- C16 ----
\* C16: the tasks of a crawl have pairwise different tiles and pairwise
\* different target paths, and so have any two tiles of the crawl's level
\* (a fact of the crawl's url and level alone, stated where the crawl begins).
C16_DistinctTargets ==
  /\ \A i, j \in TaskIds :
       i # j => tasks[i].tile # tasks[j].tile /\ tasks[i].target # tasks[j].target
  /\ (pc = "enum" /\ tasks = <<>>) =>
       \A cx1, cy1, cx2, cy2 \in Coords(bounding_box[1].z) :
         <<cx1, cy1>> # <<cx2, cy2>> =>
            Target(url, Tile(cx1, cy1, bounding_box[1].z))
              # Target(url, Tile(cx2, cy2, bounding_box[1].z))

\* the enumeration of a rectangle is over, with two tasks whose targets lie in
\* the same directory and two whose targets have the same file name
C16_Witness ==
  /\ pc = "join"
  /\ \E i, j, k \in TaskIds :
       /\ i # j /\ i # k
       /\ tasks[i].tile.x = tasks[j].tile.x
       /\ dirname(tasks[i].target) = dirname(tasks[j].target)
       /\ tasks[i].tile.y = tasks[k].tile.y
       /\ dirname(tasks[i].target) # dirname(tasks[k].target)

\* ---- C17 ----
\* C17: with num_workers <= 0 and at least one tile enumerated crawl_box never
\* returns: at queue.join() no step can be taken.  With no tile enumerated
\* crawl_box can return from queue.join() at once, and no worker has taken a
\* task, made a directory or touched a file.
C17_NoWorkersNoReturn ==
  /\ (num_workers <= 0 /\ tasks # <<>>) => pc # "done"
  /\ (num_workers <= 0 /\ tasks # <<>> /\ pc = "join") => ~ENABLED Next
  /\ (pc # "enum" /\ tasks = <<>>) =>
        /\ pc = "join" => ENABLED JoinReturn
        /\ dirs = {} /\ files = files0 /\ log = [info |-> 0, error |-> 0]
        /\ \A w \in DOMAIN workers : workers[w].pc \in {"get", "cancelled"}

\* crawl_box waits at queue.join() with three tiles queued and no worker
C17_Witness ==
  /\ num_workers = 0
  /\ pc = "join"
  /\ Len(queue) = 3

\* ---- C18 ----
Pending == {i \in TaskIds : status[i] = "pending"}

\* C18: the queue's count of unfinished tasks equals the number of pending
\* tasks plus the number of tasks in flight, is never negative, and is 0 only
\* when every enumerated task is succeeded or failed.
C18_UnfinishedCount ==
  /\ unfinished = Cardinality(Pending) + Cardinality(InFlight)
  /\ unfinished >= 0
  /\ unfinished = 0 => \A i \in TaskIds : status[i] \in Terminal

\* of three tasks one is pending, one in flight, and one has succeeded
C18_Witness ==
  /\ unfinished = 2
  /\ \E i, j, k \in TaskIds :
       /\ status[i] = "pending"
       /\ status[j] = "in-flight"
       /\ status[k] = "succeeded"

\* ---- C19 ----
\* C19: while crawl_box enumerates, no worker exists, every task is pending
\* and queued, and no directory or file has been touched; once the workers
\* are started, every tile of the rectangle has been enumerated and the bar's
\* total, the queue's size at that moment, is the full tile count.
C19_EnumerationFirst ==
  /\ pc = "enum" =>
        /\ workers = <<>>
        /\ Len(queue) = Len(tasks)
        /\ \A i \in TaskIds : status[i] = "pending"
        /\ dirs = {} /\ files = files0
  /\ pc # "enum" =>
        /\ Len(tasks) = BoxSize(bounding_box)
        /\ progress.total = Len(tasks)

\* the only worker has not yet taken a task and three tasks wait in the queue
C19_Witness ==
  /\ pc = "join"
  /\ num_workers = 1
  /\ Len(queue) = 3
  /\ Len(queue) > num_workers

\* ---- C12 ----
\* what crawl_box hands back to crawl, and crawl to main: the function has no
\* return statement, so None, here the record without fields
ReturnValue == [f \in {} |-> 0]

Succeeded == {i \in TaskIds : status[i] = "succeeded"}

\* the tasks whose fetch was answered with 200 and whose body was written in full
Persisted ==
  {i \in TaskIds :
     /\ outcome[i][2] = 200
     /\ outcome[i][3] = Len(ServerBody(tasks[i].source))
     /\ FileAt(files, tasks[i].target) = <<"file", ServerBody(tasks[i].source)>>}

C13_XInRange ==
  pc # "crawl" =>
    /\ bounding_box[1].x = ((args.top_longitude + 180) * Pow2(args.level)) \div 360
    /\ bounding_box[2].x = ((args.bottom_longitude + 180) * Pow2(args.level)) \div 360
    /\ \A i \in 1..2 : 0 <= bounding_box[i].x /\ bounding_box[i].x < Pow2(args.level)

\* ---- C14 ----
\* C14: the crawl of top (85, -180), bottom (-85, 180) at level 0 enumerates
\* the one tile (0, 0, 0) and fetches nothing else.
C14_WorldIsOneTile ==
  (/\ pc \notin {"crawl", "enum"}
   /\ args = [top_latitude |-> 85, top_longitude |-> -180,
              bottom_latitude |-> -85, bottom_longitude |-> 180, level |-> 0]) =>
     /\ Len(tasks) = 1
     /\ tasks[1].tile = Tile(0, 0, 0)
     /\ tasks[1].target = <<folder, "/", "0", "/", "0", "/", "0", ".png">>

\* ---- C15 ----
\* C15: under a fair event loop, a crawl with at least one worker eventually
\* has every enumerated task taken from the queue once and ended, the queue
\* empty, and crawl_box returned.
C15_EventuallyReturns ==
  <>(\/ num_workers < 1
     \/ /\ pc = "done"
        /\ queue = <<>>
        /\ Len(tasks) = BoxSize(bounding_box)
        /\ \A i \in TaskIds : dequeues[i] = 1 /\ status[i] \in Terminal)

\* crawl_box has returned after two workers ran three tasks
C15_Witness ==
  /\ pc = "done"
  /\ num_workers = 2
  /\ Len(tasks) = 3
  /\ \A i \in TaskIds : dequeues[i] = 1
====
